---------------------------- MODULE Spec2Model ----------------------------
(***************************************************************************)
(* SELD metrics (Mesaros et al., WASPAA 2019): the score accumulator       *)
(* SELDMetrics of SELD_evaluation_metrics.py and the two segment encoders  *)
(* of test_metrics.py.                                                     *)
(*                                                                         *)
(* Numbers.  Directions are azimuths in whole degrees on the equator       *)
(* (elevation 0), and the arithmetic is exact: for such directions the     *)
(* great-circle distance is the absolute azimuth difference folded into    *)
(* 0..180.  A distance is held in units of 1/DEDen degree, so that the     *)
(* quotient total_spatial_dist / total_framewise_matching_doa is an        *)
(* integer.  Floating-point rounding is not modelled.                      *)
(*                                                                         *)
(* Python dictionaries are functions; "k in d" is k \in DOMAIN d, and a    *)
(* lookup d[k] of an absent key raises KeyError.  Python lists are         *)
(* sequences.  A raised exception ends the run: err holds its name.        *)
(***************************************************************************)
EXTENDS Integers, Sequences, FiniteSets, TLC

VARIABLES
    eval,       \* the accumulator of the driver loop (test_metrics.py:176)
    twin,       \* an accumulator with another doa_thresh, fed the same recordings
    worker,     \* private accumulators: each recording goes to one of them
    output,     \* what compute_seld_scores last returned
    err,        \* "none", or the exception that ended the run
    seen,       \* history: what the recordings fed so far contained
    max_frames, \* the frames of the recording
    gt_dict,    \* the reference description, as read
    pred_dict,  \* the predicted output, as read
    gt_blocks_dict,     \* what segment_gt_labels returned
    pred_blocks_dict    \* what segment_pred_labels returned

accumulators == <<eval, twin, worker, output, seen>>
recording == <<max_frames, gt_dict, pred_dict, gt_blocks_dict, pred_blocks_dict>>
vars == <<eval, twin, worker, output, err, seen,
          max_frames, gt_dict, pred_dict, gt_blocks_dict, pred_blocks_dict>>

(***************************************************************************)
(* Parameters of the program and bounds of the model.                      *)
(***************************************************************************)
NbClasses == 2          \* nb_classes
BlockSize == 3          \* frames in a segment
DoaThresh == 10         \* doa_thresh of eval
DoaThreshTwin == 0      \* doa_thresh of twin
MaxBlocks == 2          \* blocks fed to an accumulator in one run

RECURSIVE Factorial(_)
Factorial(n) == IF n <= 1 THEN 1 ELSE n * Factorial(n - 1)

\* A distance is an integer number of 1/DEDen degrees.
DEDen == Factorial(BlockSize)

Abs(x) == IF x < 0 THEN -x ELSE x
Min(a, b) == IF a <= b THEN a ELSE b
Max(a, b) == IF a >= b THEN a ELSE b
Range(s) == {s[i] : i \in 1..Len(s)}

(***************************************************************************)
(* Geometry.                                                               *)
(***************************************************************************)
\* arccos(clip(sin e1 sin e2 + cos e1 cos e2 cos|az1 - az2|)) in degrees, at
\* e1 = e2 = 0: the azimuth difference folded into 0..180.
distance_between_spherical_coordinates_rad(az1, az2) ==
    LET x == Abs(az1 - az2) % 360
    IN  IF x <= 180 THEN x ELSE 360 - x

\* cart2sph(mean(sph2cart(azs))): the azimuth of the mean unit vector, for
\* a list of one direction repeated or of two directions less than 180 apart
\* in equal numbers with a whole midpoint.
mean_direction(azs) ==
    IF Cardinality(Range(azs)) = 1
    THEN azs[1]
    ELSE LET a == CHOOSE v \in Range(azs) : \A w \in Range(azs) : v <= w
             b == CHOOSE v \in Range(azs) : \A w \in Range(azs) : v >= w
         IN  (a + b) \div 2

\* np.squeeze(np.array(values), 1): values holds one [azi, ele] per offset.
squeeze(values) == [i \in 1..Len(values) |-> values[i][1]]
Squeezable(values) == \A i \in 1..Len(values) : Len(values[i]) = 1

(***************************************************************************)
(* SELDMetrics.                                                            *)
(***************************************************************************)
SELDMetrics(doa_thresh, nb_classes, avg_type) ==
    [is_avg_spatial_error |-> avg_type,
     TP |-> 0, FP |-> 0, TN |-> 0, FN |-> 0,
     S |-> 0, D |-> 0, I |-> 0,
     Nref |-> 0, Nsys |-> 0,
     total_DE |-> 0, DE_TP |-> 0,
     nb_classes |-> nb_classes, spatial_T |-> doa_thresh]

\* A quotient num / float(den + eps): 0 when num = den = 0.
Quot(num, den) == <<num, den>>

\* Faulty variant: the statistics are cleared once the scores are read.
compute_seld_scores_clearing(self) ==
    [self |-> SELDMetrics(self.spatial_T, self.nb_classes, self.is_avg_spatial_error),
     ret  |-> [ER_LD |-> Quot(self.S + self.D + self.I, self.Nref),
               F_LD  |-> Quot(200 * self.TP, self.Nsys + self.Nref),
               DE_CL |-> Quot(self.total_DE, self.DE_TP * DEDen),
               F_CL  |-> Quot(200 * self.DE_TP, self.Nsys + self.Nref)]]

compute_seld_scores(self) ==
    [self |-> self,
     ret  |-> [ER_LD |-> Quot(self.S + self.D + self.I, self.Nref),
               F_LD  |-> Quot(200 * self.TP, self.Nsys + self.Nref),
               DE_CL |-> Quot(self.total_DE, self.DE_TP * DEDen),
               F_CL  |-> Quot(200 * self.DE_TP, self.Nsys + self.Nref)]]

\* The state of one update call: the object, the block's local counts, and
\* the exception raised, if any.
Call(self) == [self |-> self, loc_FN |-> 0, loc_FP |-> 0, err |-> "none"]

\* Faulty variant: the reference count tests the prediction, as the system count does.
count_ref_sys_copied(st, pred, gt, block_cnt, class_cnt) ==
    IF block_cnt \notin DOMAIN pred
    THEN [st EXCEPT !.err = "KeyError"]
    ELSE IF class_cnt \in DOMAIN pred[block_cnt]
         THEN [st EXCEPT !.self.Nref = @ + 1, !.self.Nsys = @ + 1] ELSE st

\* Lines 102-105 (170-173): Nref, then the lookup pred[block_cnt], then Nsys.
count_ref_sys(st, pred, gt, block_cnt, class_cnt) ==
    LET s1 == IF class_cnt \in DOMAIN gt[block_cnt]
              THEN [st EXCEPT !.self.Nref = @ + 1] ELSE st
    IN  IF block_cnt \notin DOMAIN pred
        THEN [s1 EXCEPT !.err = "KeyError"]
        ELSE IF class_cnt \in DOMAIN pred[block_cnt]
             THEN [s1 EXCEPT !.self.Nsys = @ + 1] ELSE s1

false_negative(st) == [st EXCEPT !.loc_FN = @ + 1, !.self.FN = @ + 1]
false_positive(st) == [st EXCEPT !.loc_FP = @ + 1, !.self.FP = @ + 1]
\* Faulty variant: the last branch of the chain counts nothing.
true_negative_dropped(st) == st
true_negative(st)  == [st EXCEPT !.self.TN = @ + 1]
true_positive(st)  == [st EXCEPT !.self.TP = @ + 1]

\* Faulty variant: a strict comparison with the threshold.
within_threshold_strict(avg_spatial_dist, spatial_T) ==
    avg_spatial_dist < spatial_T * DEDen

\* avg_spatial_dist <= self._spatial_T
within_threshold(avg_spatial_dist, spatial_T) ==
    avg_spatial_dist <= spatial_T * DEDen

\* Lines 133-140 (204-211).
score_distance(st, avg_spatial_dist) ==
    LET s1 == [st EXCEPT !.self.total_DE = @ + avg_spatial_dist,
                         !.self.DE_TP = @ + 1]
    IN  IF within_threshold(avg_spatial_dist, st.self.spatial_T)
        THEN true_positive(s1)
        ELSE false_negative(s1)

\* Lines 114-130: the distance between the mean locations of the first tracks.
average_location_dist(gt_track, pred_track) ==
    DEDen * distance_between_spherical_coordinates_rad(
                mean_direction(gt_track.azi),
                mean_direction(squeeze(pred_track.doa)))

\* Lines 100-151: one class of one block.
location_class(st, pred, gt, block_cnt, class_cnt) ==
    LET s1 == count_ref_sys(st, pred, gt, block_cnt, class_cnt)
        in_gt == class_cnt \in DOMAIN gt[block_cnt]
        in_pred == class_cnt \in DOMAIN pred[block_cnt]
    IN  IF s1.err # "none" THEN s1
        ELSE IF in_gt /\ in_pred
        THEN IF ~Squeezable(pred[block_cnt][class_cnt][1].doa)
             THEN [s1 EXCEPT !.err = "ValueError"]
             ELSE score_distance(s1,
                      average_location_dist(gt[block_cnt][class_cnt][1],
                                            pred[block_cnt][class_cnt][1]))
        ELSE IF in_gt /\ ~in_pred THEN false_negative(s1)
        ELSE IF ~in_gt /\ in_pred THEN false_positive(s1)
        ELSE true_negative(s1)

\* Faulty variant: loc_FN and loc_FP are not reset for the next block.
block_end_no_reset(st) ==
    [st EXCEPT !.self.S = @ + Min(st.loc_FP, st.loc_FN),
               !.self.D = @ + Max(0, st.loc_FN - st.loc_FP),
               !.self.I = @ + Max(0, st.loc_FP - st.loc_FN)]

\* Faulty variant: S, D and I are assigned, not added to.
block_end_assign(st) ==
    [st EXCEPT !.self.S = Min(st.loc_FP, st.loc_FN),
               !.self.D = Max(0, st.loc_FN - st.loc_FP),
               !.self.I = Max(0, st.loc_FP - st.loc_FN),
               !.loc_FN = 0, !.loc_FP = 0]

\* Lines 153-155 (224-226), and the next block's loc_FN, loc_FP = 0, 0.
block_end(st) ==
    [st EXCEPT !.self.S = @ + Min(st.loc_FP, st.loc_FN),
               !.self.D = @ + Max(0, st.loc_FN - st.loc_FP),
               !.self.I = @ + Max(0, st.loc_FP - st.loc_FN),
               !.loc_FN = 0, !.loc_FP = 0]

RECURSIVE location_classes(_, _, _, _, _)
location_classes(st, pred, gt, block_cnt, class_cnt) ==
    IF st.err # "none" \/ class_cnt >= st.self.nb_classes THEN st
    ELSE location_classes(location_class(st, pred, gt, block_cnt, class_cnt),
                          pred, gt, block_cnt, class_cnt + 1)

RECURSIVE location_blocks(_, _, _, _)
location_blocks(st, pred, gt, block_cnt) ==
    IF st.err # "none" \/ block_cnt >= Cardinality(DOMAIN gt) THEN st
    ELSE LET s1 == location_classes(st, pred, gt, block_cnt, 0)
         IN  IF s1.err # "none" THEN s1
             ELSE location_blocks(block_end(s1), pred, gt, block_cnt + 1)

update_average_location_in_segment_score(self, pred, gt) ==
    location_blocks(Call(self), pred, gt, 0)

\* Lines 188-196: the sum of the distances, and their number, over the
\* reference offsets that are prediction offsets too.
RECURSIVE framewise_matching(_, _, _, _)
framewise_matching(gt_track, pred_track, gt_ind, acc) ==
    IF gt_ind > Len(gt_track.ind) THEN acc
    ELSE LET gt_val == gt_track.ind[gt_ind]
             pred_ind_list == pred_track.ind
         IN  IF gt_val \in Range(pred_ind_list)
             THEN LET pred_ind == CHOOSE j \in 1..Len(pred_ind_list) :
                                    /\ pred_ind_list[j] = gt_val
                                    /\ \A k \in 1..(j - 1) : pred_ind_list[k] # gt_val
                  IN  framewise_matching(gt_track, pred_track, gt_ind + 1,
                          [total_spatial_dist |-> acc.total_spatial_dist
                               + distance_between_spherical_coordinates_rad(
                                     gt_track.azi[gt_ind],
                                     squeeze(pred_track.doa)[pred_ind]),
                           total_framewise_matching_doa |->
                               acc.total_framewise_matching_doa + 1])
             ELSE framewise_matching(gt_track, pred_track, gt_ind + 1, acc)

\* Faulty variant: with no matching offset the pair is scored with distance 0.
spatial_error_both_unguarded(st, gt_track, pred_track) ==
    LET m == framewise_matching(gt_track, pred_track, 1,
                 [total_spatial_dist |-> 0, total_framewise_matching_doa |-> 0])
    IN  score_distance(st,
            IF m.total_framewise_matching_doa = 0 THEN 0
            ELSE (DEDen * m.total_spatial_dist) \div m.total_framewise_matching_doa)

\* Lines 198-211.
spatial_error_both(st, gt_track, pred_track) ==
    LET m == framewise_matching(gt_track, pred_track, 1,
                 [total_spatial_dist |-> 0, total_framewise_matching_doa |-> 0])
    IN  IF m.total_spatial_dist = 0 /\ m.total_framewise_matching_doa = 0
        THEN false_negative(st)
        ELSE score_distance(st,
                 (DEDen * m.total_spatial_dist) \div m.total_framewise_matching_doa)

\* Lines 168-222: one class of one block.
spatial_error_class(st, pred, gt, block_cnt, class_cnt) ==
    LET s1 == count_ref_sys(st, pred, gt, block_cnt, class_cnt)
        in_gt == class_cnt \in DOMAIN gt[block_cnt]
        in_pred == class_cnt \in DOMAIN pred[block_cnt]
    IN  IF s1.err # "none" THEN s1
        ELSE IF in_gt /\ in_pred
        THEN IF ~Squeezable(pred[block_cnt][class_cnt][1].doa)
             THEN [s1 EXCEPT !.err = "ValueError"]
             ELSE spatial_error_both(s1, gt[block_cnt][class_cnt][1],
                                         pred[block_cnt][class_cnt][1])
        ELSE IF in_gt /\ ~in_pred THEN false_negative(s1)
        ELSE IF ~in_gt /\ in_pred THEN false_positive(s1)
        ELSE true_negative(s1)

RECURSIVE spatial_error_classes(_, _, _, _, _)
spatial_error_classes(st, pred, gt, block_cnt, class_cnt) ==
    IF st.err # "none" \/ class_cnt >= st.self.nb_classes THEN st
    ELSE spatial_error_classes(
             spatial_error_class(st, pred, gt, block_cnt, class_cnt),
             pred, gt, block_cnt, class_cnt + 1)

RECURSIVE spatial_error_blocks(_, _, _, _)
spatial_error_blocks(st, pred, gt, block_cnt) ==
    IF st.err # "none" \/ block_cnt >= Cardinality(DOMAIN gt) THEN st
    ELSE LET s1 == spatial_error_classes(st, pred, gt, block_cnt, 0)
         IN  IF s1.err # "none" THEN s1
             ELSE spatial_error_blocks(block_end(s1), pred, gt, block_cnt + 1)

update_average_spatial_error_in_segment_score(self, pred, gt) ==
    spatial_error_blocks(Call(self), pred, gt, 0)

update_seld_scores(self, pred, gt) ==
    IF self.is_avg_spatial_error
    THEN update_average_spatial_error_in_segment_score(self, pred, gt)
    ELSE update_average_location_in_segment_score(self, pred, gt)


(***************************************************************************)
(* The recordings fed to update: block index -> class index -> tracks.     *)
(* A reference track is (ind_list, azi_list) with one direction broadcast  *)
(* over its offsets; a prediction track is (keys, values) with one         *)
(* [azi, ele] per offset.                                                  *)
(***************************************************************************)
GtTrack(ind, az) == [ind |-> ind, azi |-> [i \in 1..Len(ind) |-> az]]
PredTrack(ind, azs) == [ind |-> ind, doa |-> [i \in 1..Len(ind) |-> <<azs[i]>>]]

GtEntries == { <<GtTrack(<<0, 1>>, 0)>> }
\* Against the reference track: no common offset (and 40 degrees between the
\* mean locations), 0 degrees, 5 degrees, 40 degrees.  None of the distances
\* is within rounding of a threshold but the exact 0.
PredEntries == { <<PredTrack(<<2>>, <<40>>)>>,
                 <<PredTrack(<<0>>, <<0>>)>>,
                 <<PredTrack(<<0, 1>>, <<0, 10>>)>>,
                 <<PredTrack(<<1>>, <<40>>)>> }

Dicts(keys, values) == UNION {[d -> values] : d \in SUBSET keys}

Classes == 0..(NbClasses - 1)
GtBlocks == Dicts(Classes, GtEntries)
PredBlocks == Dicts(Classes, PredEntries)

\* d with the key NbClasses, which no class index of the accumulator reaches.
WithStrayClass(d, entry) ==
    [k \in DOMAIN d \cup {NbClasses} |-> IF k = NbClasses THEN entry ELSE d[k]]
StrayGt == CHOOSE e \in GtEntries : TRUE
StrayPred == <<PredTrack(<<0>>, <<0>>)>>

Recording(pred, gt) == [pred |-> pred, gt |-> gt]

\* Recordings of n blocks whose class indices are all in 0..nb_classes-1.
WellFormed(n) ==
    {Recording(p, g) : p \in [0..(n - 1) -> PredBlocks], g \in [0..(n - 1) -> GtBlocks]}

\* One-block recordings with a class index nb_classes in the prediction or
\* in the reference.
StrayClass ==
    {Recording([b \in {0} |-> WithStrayClass(r.pred[0], StrayPred)], r.gt) :
        r \in {x \in WellFormed(1) : DOMAIN x.pred[0] \subseteq DOMAIN x.gt[0]}}
    \cup
    {Recording(r.pred, [b \in {0} |-> WithStrayClass(r.gt[0], StrayGt)]) :
        r \in {x \in WellFormed(1) : DOMAIN x.gt[0] \subseteq DOMAIN x.pred[0]}}

HasStrayClass(rec) ==
    \E b \in DOMAIN rec.gt :
        \/ \E k \in DOMAIN rec.gt[b] : k \notin Classes
        \/ b \in DOMAIN rec.pred /\ \E k \in DOMAIN rec.pred[b] : k \notin Classes

Recordings(n) == IF n = 1 THEN WellFormed(1) \cup StrayClass ELSE WellFormed(n)

(***************************************************************************)
(* History: the (block, class) pairs of the recordings fed so far, counted *)
(* by what the pair holds, from the rules the metric is defined by.        *)
(***************************************************************************)
InGt(rec, b, c) == c \in DOMAIN rec.gt[b]
InPred(rec, b, c) == c \in DOMAIN rec.pred[b]
Both(rec, b, c) == InGt(rec, b, c) /\ InPred(rec, b, c)

CommonOffsets(rec, b, c) ==
    Range(rec.gt[b][c][1].ind) \cap Range(rec.pred[b][c][1].ind)

\* Whether the averaging mode yields a distance for a both-present pair.
HasDistance(spatial, rec, b, c) ==
    Both(rec, b, c) /\ (spatial => CommonOffsets(rec, b, c) # {})

RECURSIVE SumOver(_, _)
SumOver(set, f) ==
    IF set = {} THEN 0
    ELSE LET x == CHOOSE y \in set : TRUE IN f[x] + SumOver(set \ {x}, f)

\* The representative distance of a pair that has one, in 1/DEDen degrees.
RepDistance(spatial, rec, b, c) ==
    LET g == rec.gt[b][c][1]
        p == rec.pred[b][c][1]
        gaz == [o \in Range(g.ind) |->
                   g.azi[CHOOSE i \in 1..Len(g.ind) : g.ind[i] = o]]
        paz == [o \in Range(p.ind) |->
                   p.doa[CHOOSE i \in 1..Len(p.ind) : p.ind[i] = o][1]]
        common == CommonOffsets(rec, b, c)
    IN  IF spatial
        THEN (DEDen * SumOver(common,
                 [o \in common |->
                     distance_between_spherical_coordinates_rad(gaz[o], paz[o])]))
             \div Cardinality(common)
        ELSE average_location_dist(g, p)

PairKind(spatial, T, rec, b, c) ==
    IF Both(rec, b, c)
    THEN IF HasDistance(spatial, rec, b, c)
            /\ RepDistance(spatial, rec, b, c) <= T * DEDen
         THEN "TP" ELSE "FN"
    ELSE IF InGt(rec, b, c) THEN "FN"
    ELSE IF InPred(rec, b, c) THEN "FP"
    ELSE "TN"

Pairs(rec) == (DOMAIN rec.gt) \X Classes
Count(set) == Cardinality(set)

\* What one (block, class) pair of a recording holds.
PairSeen(spatial, rec, b, c) ==
    LET hasd == HasDistance(spatial, rec, b, c)
        d == IF hasd THEN RepDistance(spatial, rec, b, c) ELSE 0
    IN  [block |-> b, class |-> c,
         both |-> Both(rec, b, c),
         gt_only |-> InGt(rec, b, c) /\ ~InPred(rec, b, c),
         pred_only |-> ~InGt(rec, b, c) /\ InPred(rec, b, c),
         neither |-> ~InGt(rec, b, c) /\ ~InPred(rec, b, c),
         no_common |-> Both(rec, b, c) /\ CommonOffsets(rec, b, c) = {},
         has_d |-> hasd,
         d |-> d,
         kind |-> PairKind(spatial, DoaThresh, rec, b, c)]

NoneSeen ==
    [blocks |-> 0, both |-> 0, gt_only |-> 0, pred_only |-> 0, neither |-> 0,
     no_common |-> 0, within |-> 0, within_twin |-> 0, sum_d |-> 0,
     S |-> 0, D |-> 0, I |-> 0, stray |-> 0]

Observe(h, spatial, rec) ==
    LET B == DOMAIN rec.gt
        ps == {PairSeen(spatial, rec, x[1], x[2]) : x \in Pairs(rec)}
        n(field) == Count({p \in ps : p[field]})
        loc(b, kind) == Count({p \in ps : p.block = b /\ p.kind = kind})
    IN  [blocks |-> h.blocks + Count(B),
         both |-> h.both + n("both"),
         gt_only |-> h.gt_only + n("gt_only"),
         pred_only |-> h.pred_only + n("pred_only"),
         neither |-> h.neither + n("neither"),
         no_common |-> h.no_common + n("no_common"),
         within |-> h.within
             + Count({p \in ps : p.has_d /\ p.d <= DoaThresh * DEDen}),
         within_twin |-> h.within_twin
             + Count({p \in ps : p.has_d /\ p.d <= DoaThreshTwin * DEDen}),
         sum_d |-> h.sum_d + SumOver(ps, [p \in ps |-> p.d]),
         S |-> h.S + SumOver(B, [b \in B |-> Min(loc(b, "FP"), loc(b, "FN"))]),
         D |-> h.D + SumOver(B, [b \in B |-> Max(0, loc(b, "FN") - loc(b, "FP"))]),
         I |-> h.I + SumOver(B, [b \in B |-> Max(0, loc(b, "FP") - loc(b, "FN"))]),
         stray |-> h.stray + (IF HasStrayClass(rec) THEN 1 ELSE 0)]

(***************************************************************************)
(* The driver loop (test_metrics.py:173-190): accumulators that differ in  *)
(* doa_thresh are fed the same recordings, and read at any time.           *)
(***************************************************************************)
Workers == {1, 2}
NoOutput == [ER_LD |-> <<>>, F_LD |-> <<>>, DE_CL |-> <<>>, F_CL |-> <<>>]

\* What an encoder returned, once it has.
NotYet == [returned |-> FALSE]
Returned(output_dict) == [returned |-> TRUE, dict |-> output_dict]
NoGt == [start |-> <<>>, end |-> <<>>, class |-> <<>>, azi |-> <<>>]
NoPred == <<>>

\* The accumulators as constructed.
Constructed(avg_type) ==
    /\ eval = SELDMetrics(DoaThresh, NbClasses, avg_type)
    /\ twin = SELDMetrics(DoaThreshTwin, NbClasses, avg_type)
    /\ worker = [w \in Workers |-> SELDMetrics(DoaThresh, NbClasses, avg_type)]
    /\ output = NoOutput
    /\ seen = NoneSeen

Init ==
    /\ \E avg_type \in BOOLEAN : Constructed(avg_type)
    /\ err = "none"
    /\ max_frames = 0
    /\ gt_dict = NoGt
    /\ pred_dict = NoPred
    /\ gt_blocks_dict = NotYet
    /\ pred_blocks_dict = NotYet

\* eval.update_seld_scores(pred_blocks_dict, gt_blocks_dict)
Update(rec, w) ==
    /\ err = "none"
    /\ LET r == update_seld_scores(eval, rec.pred, rec.gt)
       IN  /\ eval' = r.self
           /\ err' = r.err
           /\ seen' = IF r.err = "none"
                      THEN Observe(seen, eval.is_avg_spatial_error, rec)
                      ELSE seen
    /\ twin' = update_seld_scores(twin, rec.pred, rec.gt).self
    /\ worker' = [worker EXCEPT ![w] = update_seld_scores(@, rec.pred, rec.gt).self]
    /\ UNCHANGED output
    /\ UNCHANGED recording

UpdateAny ==
    \E n \in 1..(MaxBlocks - seen.blocks) :
        \E rec \in Recordings(n), w \in Workers : Update(rec, w)

\* output = eval.compute_seld_scores()
Finalize ==
    /\ err = "none"
    /\ LET r == compute_seld_scores(eval)
       IN  /\ eval' = r.self
           /\ output' = r.ret
    /\ UNCHANGED <<twin, worker, err, seen>>
    /\ UNCHANGED recording

Next == UpdateAny \/ Finalize

Spec == Init /\ [][Next]_vars


(***************************************************************************)
(* Properties of the accumulator.                                          *)
(***************************************************************************)
Statistics == {"TP", "FP", "TN", "FN", "S", "D", "I", "Nref", "Nsys",
               "DE_TP", "total_DE"}
Spatial == eval.is_avg_spatial_error

\* C1: in both averaging modes every (block, class) pair of the recordings
\* fed so far went to exactly one of TP, FN, FP, TN: the four counters sum to
\* nb_classes times the number of blocks processed, FP counts the pairs only
\* the prediction holds, TN the pairs neither holds, and TP + FN the pairs
\* the reference holds; whatever the threshold.
C1_ConfusionComplete ==
    \A a \in {eval, twin} :
        /\ a.TP + a.FN + a.FP + a.TN = a.nb_classes * seen.blocks
        /\ a.FP = seen.pred_only
        /\ a.TN = seen.neither
        /\ a.TP + a.FN = seen.both + seen.gt_only

C1_Witness ==
    /\ seen.blocks >= 2
    /\ eval.TP > 0 /\ eval.FN > 0 /\ eval.FP > 0 /\ eval.TN > 0

\* C2: a both-present pair with a representative distance d is a true
\* positive iff d <= doa_thresh and a false negative otherwise, and in both
\* outcomes adds d to total_DE and 1 to DE_TP: so accumulators that differ
\* only in doa_thresh hold the same DE_TP and total_DE.
C2_ThresholdRule ==
    /\ eval.TP = seen.within
    /\ twin.TP = seen.within_twin
    /\ eval.FN = seen.gt_only + seen.both - seen.within
    /\ twin.FN = seen.gt_only + seen.both - seen.within_twin
    /\ eval.total_DE = seen.sum_d
    /\ twin.total_DE = eval.total_DE
    /\ twin.DE_TP = eval.DE_TP

C2_Witness ==
    /\ eval.TP > twin.TP
    /\ twin.TP > 0
    /\ eval.total_DE > 0

\* C3: averaging the spatial error, a both-present pair with no common
\* offset is a false negative that adds nothing to total_DE and DE_TP,
\* whatever the threshold; averaging the location, every both-present pair
\* adds one distance.
C3_NoCommonOffset ==
    \A a \in {eval, twin} :
        IF a.is_avg_spatial_error
        THEN /\ a.DE_TP = seen.both - seen.no_common
             /\ a.total_DE = seen.sum_d
             /\ a.TP <= seen.both - seen.no_common
             /\ a.FN >= seen.gt_only + seen.no_common
        ELSE a.DE_TP = seen.both

C3_Witness == Spatial /\ seen.no_common > 0 /\ eval.DE_TP > 0

\* C4: S, D and I are the sums over the processed blocks of
\* min(loc_FP, loc_FN), max(0, loc_FN - loc_FP) and max(0, loc_FP - loc_FN),
\* where loc_FN and loc_FP count the block's own false negatives and false
\* positives from zero.
C4_SubstDelIns ==
    /\ eval.S = seen.S
    /\ eval.D = seen.D
    /\ eval.I = seen.I

C4_Witness ==
    /\ seen.blocks >= 2
    /\ eval.S > 0
    /\ eval.D > 0
    /\ eval.FP = 1

\* C5: compute_seld_scores changes no running statistic, can be called in
\* every state, and update can be called after it as before it.
C5_FinalizeReadsOnly ==
    /\ [](ENABLED Finalize)
    /\ [](seen.blocks < MaxBlocks => ENABLED UpdateAny)
    /\ [][Finalize => (eval' = eval /\ twin' = twin /\ worker' = worker)]_vars

\* An update after a read: the scores last returned are not those of eval.
C5_Witness ==
    /\ output # NoOutput
    /\ output # compute_seld_scores(eval).ret
    /\ seen.blocks > 0

\* C6: a recording with a class index outside 0..nb_classes-1 is never
\* accepted by update.
C6_StrayClassRejected == seen.stray = 0

\* C7: the statistics of an accumulator fed all the recordings are the sums,
\* field by field, of those of the private accumulators the recordings were
\* dealt to.
C7_Additive ==
    \A f \in Statistics :
        eval[f] = SumOver(Workers, [w \in Workers |-> worker[w][f]])

C7_Witness ==
    /\ \A w \in Workers : worker[w].Nref + worker[w].Nsys > 0
    /\ eval.total_DE > 0
    /\ eval.S + eval.D + eval.I > 0

\* C8, as stated: averaging the location, a both-present pair beyond the
\* threshold, counted as a false negative, makes TP + FN differ from Nref.
OverThreshold == seen.both - seen.no_common * (IF Spatial THEN 1 ELSE 0) - seen.within
C8_MismatchBreaksNref ==
    (~Spatial /\ OverThreshold > 0) => eval.TP + eval.FN # eval.Nref

\* C8, amended: in both averaging modes TP + FN = Nref after every update
\* that returned, pairs beyond the threshold included.
C8_TPplusFNisNref ==
    \A a \in {eval, twin} : a.TP + a.FN = a.Nref

C8_Witness == ~Spatial /\ OverThreshold > 0 /\ eval.TP > 0


(***************************************************************************)
(* The segment encoders of test_metrics.py.  An encoder call is the        *)
(* dictionary built so far and the exception raised, if any.               *)
(***************************************************************************)
MaxFrames == 8          \* the longest recording

range(a, b) == [i \in 1..(b - a) |-> a + i - 1]
ones_times(n, v) == [i \in 1..n |-> v]
EmptyBlocks(nb_blocks) == [x \in 0..(nb_blocks - 1) |-> <<>>]
Encoding(nb_blocks) == [output_dict |-> EmptyBlocks(nb_blocks), err |-> "none"]
Raise(o, exception) == IF o.err # "none" THEN o ELSE [o EXCEPT !.err = exception]

\* if class_ind not in output_dict[block]: output_dict[block][class_ind] = []
\* output_dict[block][class_ind].append(track)
append_track(o, block, class_ind, track) ==
    IF o.err # "none" THEN o
    ELSE IF block \notin DOMAIN o.output_dict THEN Raise(o, "KeyError")
    ELSE LET d == o.output_dict[block]
             old == IF class_ind \in DOMAIN d THEN d[class_ind] ELSE <<>>
         IN  [o EXCEPT !.output_dict[block] =
                 [k \in DOMAIN d \cup {class_ind} |->
                     IF k = class_ind THEN Append(old, track) ELSE d[k]]]

\* Lines 88-96: the blocks strictly between the first and the last.
RECURSIVE gt_intermediate_blocks(_, _, _, _, _, _)
gt_intermediate_blocks(o, block_cnt, last_block, class_ind, azi, _frames_seg) ==
    IF o.err # "none" \/ block_cnt >= last_block THEN o
    ELSE gt_intermediate_blocks(
             append_track(o, block_cnt, class_ind,
                 [ind |-> range(0, _frames_seg), azi |-> ones_times(_frames_seg, azi)]),
             block_cnt + 1, last_block, class_ind, azi, _frames_seg)

\* Faulty variant: the last block's track is appended even when last_frame is 0.
gt_last_block_unguarded(o, last_block, last_frame, class_ind, azi) ==
    append_track(o, last_block, class_ind,
        [ind |-> range(0, last_frame), azi |-> ones_times(last_frame, azi)])

\* Lines 78-86: the last block.
gt_last_block(o, last_block, last_frame, class_ind, azi) ==
    IF last_frame # 0
    THEN append_track(o, last_block, class_ind,
             [ind |-> range(0, last_frame), azi |-> ones_times(last_frame, azi)])
    ELSE o

\* Lines 44-96: one sound event; se_cnt counts from 1.
gt_event(o, _gt_dict, _unique_classes, _max_frames, _frames_seg, se_cnt) ==
    IF se_cnt > Len(_gt_dict.class) THEN Raise(o, "IndexError")
    ELSE IF _gt_dict.class[se_cnt] \notin DOMAIN _unique_classes
    THEN Raise(o, "KeyError")
    ELSE IF se_cnt > Len(_gt_dict.end) THEN Raise(o, "IndexError")
    ELSE
    LET se_start == _gt_dict.start[se_cnt]
        class_ind == _unique_classes[_gt_dict.class[se_cnt]]
        first_block == se_start \div _frames_seg
        first_frame == se_start % _frames_seg
        se_end == IF _gt_dict.end[se_cnt] >= _max_frames
                  THEN _max_frames - 1 ELSE _gt_dict.end[se_cnt]
        last_block == se_end \div _frames_seg
        last_frame == se_end % _frames_seg
        no_azi == se_cnt > Len(_gt_dict.azi)
        azi == _gt_dict.azi[se_cnt]
    IN  IF last_block = first_block
        THEN IF last_frame - first_frame > 0
             THEN IF no_azi THEN Raise(o, "IndexError")
                  ELSE append_track(o, first_block, class_ind,
                           [ind |-> range(first_frame, last_frame),
                            azi |-> ones_times(last_frame - first_frame, azi)])
             ELSE o
        ELSE IF no_azi THEN Raise(o, "IndexError")
             ELSE gt_intermediate_blocks(
                      gt_last_block(
                          append_track(o, first_block, class_ind,
                              [ind |-> range(first_frame, _frames_seg),
                               azi |-> ones_times(_frames_seg - first_frame, azi)]),
                          last_block, last_frame, class_ind, azi),
                      first_block + 1, last_block, class_ind, azi, _frames_seg)

RECURSIVE gt_events(_, _, _, _, _, _)
gt_events(o, _gt_dict, _unique_classes, _max_frames, _frames_seg, se_cnt) ==
    IF o.err # "none" \/ se_cnt > Len(_gt_dict.start) THEN o
    ELSE gt_events(
             gt_event(o, _gt_dict, _unique_classes, _max_frames, _frames_seg, se_cnt),
             _gt_dict, _unique_classes, _max_frames, _frames_seg, se_cnt + 1)

\* nb_blocks = int(np.ceil(_max_frames / float(_frames_seg)))
segment_gt_labels(_gt_dict, _unique_classes, _max_frames, _frames_seg) ==
    gt_events(Encoding((_max_frames + _frames_seg - 1) \div _frames_seg),
              _gt_dict, _unique_classes, _max_frames, _frames_seg, 1)

RECURSIVE SortedSeq(_)
SortedSeq(set) ==
    IF set = {} THEN <<>>
    ELSE LET m == CHOOSE x \in set : \A y \in set : x <= y
         IN  <<m>> \o SortedSeq(set \ {m})

RECURSIVE azis_of_class(_, _)
azis_of_class(values, class_cnt) ==
    IF values = <<>> THEN <<>>
    ELSE (IF Head(values)[1] = class_cnt THEN <<Head(values)[2]>> ELSE <<>>)
         \o azis_of_class(Tail(values), class_cnt)

\* Lines 113-134: the block that starts at frame_cnt.  loc_dict maps a class to
\* the block's frames that hold it, in the order of the frames.
pred_block(o, _pred_dict, frame_cnt, _frames_seg) ==
    LET block_cnt == frame_cnt \div _frames_seg
        frames == {f \in frame_cnt..(frame_cnt + _frames_seg - 1) : f \in DOMAIN _pred_dict}
        holds(f, c) == \E i \in 1..Len(_pred_dict[f]) : _pred_dict[f][i][1] = c
        classes == UNION {{_pred_dict[f][i][1] : i \in 1..Len(_pred_dict[f])} : f \in frames}
        loc_dict == [c \in classes |->
                        [block_frame \in {f - frame_cnt : f \in {g \in frames : holds(g, c)}} |->
                            azis_of_class(_pred_dict[block_frame + frame_cnt], c)]]
    IN  IF o.err # "none" \/ classes = {} THEN o
        ELSE IF block_cnt \notin DOMAIN o.output_dict THEN Raise(o, "KeyError")
        ELSE [o EXCEPT !.output_dict[block_cnt] =
                 [c \in classes |->
                     LET keys == SortedSeq(DOMAIN loc_dict[c])
                     IN  << [ind |-> keys,
                             doa |-> [i \in 1..Len(keys) |-> loc_dict[c][keys[i]]]] >>]]

\* for frame_cnt in range(0, max_frames, _frames_seg)
RECURSIVE pred_blocks(_, _, _, _, _)
pred_blocks(o, _pred_dict, _max_frames, _frames_seg, frame_cnt) ==
    IF o.err # "none" \/ frame_cnt >= _max_frames THEN o
    ELSE pred_blocks(pred_block(o, _pred_dict, frame_cnt, _frames_seg),
                     _pred_dict, _max_frames, _frames_seg, frame_cnt + _frames_seg)

\* nb_blocks = int(np.floor(_max_frames / float(_frames_seg)))
segment_pred_labels(_pred_dict, _max_frames, _frames_seg) ==
    pred_blocks(Encoding(_max_frames \div _frames_seg),
                _pred_dict, _max_frames, _frames_seg, 0)

(***************************************************************************)
(* The encoders alone: a recording is read, then segmented.                *)
(***************************************************************************)
unique_classes == [l \in {"c0", "c1"} |-> IF l = "c0" THEN 0 ELSE 1]
Frames == 0..(MaxFrames + 1)

Event(start, end, class, azi) == <<start, end, class, azi>>
FromEvents(evs) ==
    [start |-> [i \in 1..Len(evs) |-> evs[i][1]],
     end   |-> [i \in 1..Len(evs) |-> evs[i][2]],
     class |-> [i \in 1..Len(evs) |-> evs[i][3]],
     azi   |-> [i \in 1..Len(evs) |-> evs[i][4]]]

OneEvent == {<<Event(s, e, c, 0)>> : s \in Frames, e \in Frames, c \in {"c0", "c1", "zz"}}
TwoEvents ==
    {<<Event(s1, e1, "c0", 0), Event(s2, e2, "c0", 20)>> :
        s1 \in Frames, e1 \in Frames, s2 \in Frames, e2 \in Frames}

\* d with the last entry of one array missing.
Shortened(d, field) ==
    [d EXCEPT ![field] = SubSeq(@, 1, Len(@) - 1)]

GtDicts ==
    {FromEvents(evs) : evs \in OneEvent \cup TwoEvents}
    \cup {Shortened(FromEvents(evs), field) :
            evs \in OneEvent, field \in {"start", "end", "class", "azi"}}
    \cup {Shortened(FromEvents(<<Event(0, e1, "c0", 0), Event(s2, MaxFrames, "c1", 20)>>), "start") :
            e1 \in Frames, s2 \in Frames}

Detections == { << <<0, 0>> >>, << <<1, 40>> >>, << <<0, 0>>, <<1, 40>> >>,
                << <<0, 0>>, <<0, 20>> >>, << <<NbClasses, 0>> >> }
PredDicts ==
    UNION {[fs -> Detections] : fs \in {x \in SUBSET Frames : Cardinality(x) <= 2}}

InitEnc ==
    /\ Constructed(TRUE)
    /\ err = "none"
    /\ max_frames \in (BlockSize + 1)..MaxFrames
    /\ \/ gt_dict \in GtDicts /\ pred_dict = NoPred
       \/ gt_dict = NoGt /\ pred_dict \in PredDicts
    /\ gt_blocks_dict = NotYet
    /\ pred_blocks_dict = NotYet

\* pred_blocks_dict = segment_pred_labels(pred_dict, max_frames, seg_frames)
SegmentPred ==
    /\ err = "none"
    /\ ~pred_blocks_dict.returned
    /\ LET r == segment_pred_labels(pred_dict, max_frames, BlockSize)
       IN  /\ err' = r.err
           /\ pred_blocks_dict' = IF r.err = "none" THEN Returned(r.output_dict) ELSE NotYet
    /\ UNCHANGED <<max_frames, gt_dict, pred_dict, gt_blocks_dict>>
    /\ UNCHANGED accumulators

\* gt_blocks_dict = segment_gt_labels(gt_dict, unique_classes, max_frames, seg_frames)
SegmentGt ==
    /\ err = "none"
    /\ ~gt_blocks_dict.returned
    /\ LET r == segment_gt_labels(gt_dict, unique_classes, max_frames, BlockSize)
       IN  /\ err' = r.err
           /\ gt_blocks_dict' = IF r.err = "none" THEN Returned(r.output_dict) ELSE NotYet
    /\ UNCHANGED <<max_frames, gt_dict, pred_dict, pred_blocks_dict>>
    /\ UNCHANGED accumulators

NextEnc == SegmentPred \/ SegmentGt

SpecEnc == InitEnc /\ [][NextEnc]_vars


(***************************************************************************)
(* Properties of the encoders.                                             *)
(***************************************************************************)
EventsRead == 1..Len(gt_dict.start)
ClippedEnd(i) ==
    IF gt_dict.end[i] >= max_frames THEN max_frames - 1 ELSE gt_dict.end[i]
ClassOf(i) == unique_classes[gt_dict.class[i]]
Covers(i, f) == gt_dict.start[i] <= f /\ f < ClippedEnd(i)
BlockFrames(b) == (b * BlockSize)..(b * BlockSize + BlockSize - 1)
TracksOf(d, b, c) == IF c \in DOMAIN d[b] THEN d[b][c] ELSE <<>>

\* The tracks of class c, over all blocks, that hold the absolute frame f.
TracksCovering(d, c, f) ==
    SumOver(DOMAIN d,
        [b \in DOMAIN d |->
            Cardinality({t \in 1..Len(TracksOf(d, b, c)) :
                \E j \in 1..Len(TracksOf(d, b, c)[t].ind) :
                    b * BlockSize + TracksOf(d, b, c)[t].ind[j] = f})])

\* C9: when every event starts no later than its end clipped to
\* max_frames - 1, the tracks of the reference encoder, mapped back to
\* absolute frames, hold each frame of [start, clipped end) of each event
\* once and no other frame; an event adds one track to each block it has a
\* frame in; every offset is in 0..block_size-1, offsets ascend, the
\* direction is broadcast over them, and no track is empty.
C9_TracksCoverEvents ==
    (gt_blocks_dict.returned /\ \A i \in EventsRead : gt_dict.start[i] <= ClippedEnd(i))
    =>
    LET d == gt_blocks_dict.dict
    IN  /\ \A b \in DOMAIN d : \A c \in DOMAIN d[b] : \A t \in 1..Len(d[b][c]) :
            LET track == d[b][c][t]
            IN  /\ Len(track.ind) > 0
                /\ Len(track.azi) = Len(track.ind)
                /\ \A j \in 1..Len(track.ind) : track.ind[j] \in 0..(BlockSize - 1)
                /\ \A j \in 1..(Len(track.ind) - 1) : track.ind[j + 1] = track.ind[j] + 1
                /\ \E i \in EventsRead :
                       /\ ClassOf(i) = c
                       /\ \A j \in 1..Len(track.azi) : track.azi[j] = gt_dict.azi[i]
        /\ \A c \in Classes : \A f \in Frames :
            TracksCovering(d, c, f)
                = Cardinality({i \in EventsRead : ClassOf(i) = c /\ Covers(i, f)})
        /\ \A b \in DOMAIN d : \A c \in Classes :
            Len(TracksOf(d, b, c))
                = Cardinality({i \in EventsRead :
                                  ClassOf(i) = c /\ \E f \in BlockFrames(b) : Covers(i, f)})

\* An event from the middle of a block, over a whole block, into the middle
\* of a third, beside another event.
C9_Witness ==
    /\ gt_blocks_dict.returned
    /\ Len(gt_dict.start) = 2
    /\ \A i \in EventsRead : gt_dict.start[i] <= ClippedEnd(i)
    /\ \E i \in EventsRead :
        /\ gt_dict.start[i] % BlockSize # 0
        /\ ClippedEnd(i) % BlockSize # 0
        /\ ClippedEnd(i) \div BlockSize = gt_dict.start[i] \div BlockSize + 2
    /\ \E i \in EventsRead :
        /\ ClippedEnd(i) % BlockSize = 0
        /\ ClippedEnd(i) \div BlockSize > gt_dict.start[i] \div BlockSize

\* C10: the prediction encoder returns floor(max_frames / block_size) blocks,
\* and a detection in the trailing partial segment is dropped without an
\* error.
TrailingDetection ==
    \E f \in DOMAIN pred_dict :
        /\ f >= (max_frames \div BlockSize) * BlockSize
        /\ f < max_frames
C10_TrailingSegmentDropped ==
    /\ pred_blocks_dict.returned =>
           DOMAIN pred_blocks_dict.dict = 0..((max_frames \div BlockSize) - 1)
    /\ TrailingDetection => err = "none"


(***************************************************************************)
(* The driver on one recording: both encoders on the same max_frames and   *)
(* block size, then the update on what they returned.                      *)
(***************************************************************************)
RunGtDicts ==
    {FromEvents(evs) :
        evs \in {<<>>} \cup {<<Event(s, e, c, 0)>> :
                                s \in Frames, e \in Frames, c \in {"c0", "c1"}}}
RunDetections == { << <<0, 0>> >>, << <<1, 40>> >>, << <<0, 0>>, <<1, 40>> >> }
RunPredDicts == {NoPred} \cup UNION {[{f} -> RunDetections] : f \in Frames}

InitRun ==
    /\ \E avg_type \in BOOLEAN : Constructed(avg_type)
    /\ err = "none"
    /\ max_frames \in 1..MaxFrames
    /\ gt_dict \in RunGtDicts
    /\ pred_dict \in RunPredDicts
    /\ gt_blocks_dict = NotYet
    /\ pred_blocks_dict = NotYet

\* eval.update_seld_scores(pred_blocks_dict, gt_blocks_dict), once both
\* encoders have returned.
UpdateEncoded ==
    /\ pred_blocks_dict.returned
    /\ gt_blocks_dict.returned
    /\ seen.blocks = 0
    /\ \E w \in Workers :
           Update(Recording(pred_blocks_dict.dict, gt_blocks_dict.dict), w)

NextRun == SegmentPred \/ SegmentGt \/ UpdateEncoded

SpecRun == InitRun /\ [][NextRun]_vars

\* C11: on the blocks the two encoders return for one max_frames and block
\* size, the update never looks up a block the prediction structure lacks:
\* it raises no KeyError, whether or not max_frames is a multiple of the
\* block size.
C11_EncodedUpdateCompletes ==
    (pred_blocks_dict.returned /\ gt_blocks_dict.returned) => err # "KeyError"

=============================================================================
